---- MODULE Spec2Model ----
(***************************************************************************)
(* Model of the ingestion pipeline of src/ingestion.py (bronze raw files,  *)
(* silver rows in one open database transaction, gold one-minute buckets). *)
(* Time is in whole seconds since the module was imported.  Every function *)
(* of the source is an operator from a world record (the module's globals, *)
(* the store and the files) to the world after the call; `ret` is the      *)
(* call's return value and `exc` says that an exception is propagating.    *)
(***************************************************************************)
EXTENDS Integers, Sequences, FiniteSets

VARIABLES
    pc,                 \* where main() is: "init", "running", "stopped", "crashed"; "direct" when the functions are called one by one
    now,                \* the clock (time.time(), datetime.now(), NOW())
    nmsg,               \* messages delivered so far (calls made, when called one by one)
    msg,                \* the message of the last delivery, as json.loads read it
    faults,             \* calls that have failed so far
    db_conn,            \* the global db_conn is a connection (TRUE) or None (FALSE)
    txn,                \* silver.sensor_reading: rows of the open transaction
    silver,             \* silver.sensor_reading: committed rows
    gold,               \* gold.reading_1min_mean: committed rows
    raw,                \* the lines of the files under /data/raw
    batch_buffer,       \* the global batch_buffer
    last_commit_time,   \* the global last_commit_time
    last_gold_refresh,  \* the global last_gold_refresh
    trace               \* what the last call did: functions entered, lines printed

vars == <<pc, now, nmsg, msg, faults, db_conn, txn, silver, gold, raw,
          batch_buffer, last_commit_time, last_gold_refresh, trace>>

\* ---------------------------------------------------------------- constants

batch_size == 10
commit_interval == 5
max_retries == 5
refresh_interval == 60
lookback == 300
bucket_width == 60
good_threshold == 58
fair_threshold == 50
day == 86400

\* ------------------------------------------------------------------- bounds

\* Readings delivered to on_message in one run of the pipeline.
MaxMsgs == 2
\* Store and file-system calls that fail in one run.
MaxFaults == 2
\* Direct calls of store_to_silver and refresh_gold_layer in one run.
MaxCalls == 4
\* Rows of one sensor in one minute.
MaxCount == 60
\* Readings delivered to on_message in one burst.
MaxBurst == 11
\* Seconds since the last refresh, counted from midnight of its day or of
\* the day after.
MaxElapsed == 61

\* ------------------------------------------------------------------ helpers

Range(s) == {s[i] : i \in 1..Len(s)}

Has(tr, ev) == \E i \in 1..Len(tr) : tr[i] = ev

\* Index of the first occurrence of ev in tr, 0 when absent.
Pos(tr, ev) == IF Has(tr, ev) THEN CHOOSE i \in 1..Len(tr) : tr[i] = ev /\ \A j \in 1..(i-1) : tr[j] # ev ELSE 0

RECURSIVE SumValues(_)
SumValues(rows) ==
    IF rows = {} THEN 0
    ELSE LET r == CHOOSE x \in rows : TRUE IN r.value + SumValues(rows \ {r})

MinValue(rows) == CHOOSE v \in {r.value : r \in rows} : \A r \in rows : v <= r.value

MaxValue(rows) == CHOOSE v \in {r.value : r \in rows} : \A r \in rows : v >= r.value

\* ROUND(AVG(value), 2) in hundredths, for values >= 0 (half rounds up).
RoundedMean(rows) == (200 * SumValues(rows) + Cardinality(rows)) \div (2 * Cardinality(rows))

\* time_bucket('1 minute', time)
time_bucket(t) == t - (t % bucket_width)

\* datetime.fromisoformat(timestamp).date()
DateOf(t) == t \div day

\* The CASE expression with > in the place of >=.
QualityAbove(c) == IF c > good_threshold THEN "Good" ELSE IF c > fair_threshold THEN "Fair" ELSE "Poor"

\* The CASE expression of the refresh query.
data_quality(c) == IF c >= good_threshold THEN "Good" ELSE IF c >= fair_threshold THEN "Fair" ELSE "Poor"

\* timedelta.seconds of a difference of d seconds: the days are a separate field.
timedelta_seconds(d) == d % day

\* ------------------------------------------------------------------- inputs

\* What json.loads made of a payload: the fields present, with their types.
\* mid numbers the message, so that two equal readings are two rows.
Reading(m, id, t, vk, v) ==
    [json |-> TRUE, mid |-> m, id_k |-> "str", id |-> id, dt_k |-> "iso", dt |-> t,
     value_k |-> vk, value |-> v]

NoValue(m, id, t) == [Reading(m, id, t, "missing", 0) EXCEPT !.value_k = "missing"]

NoId(m, t, v) == [Reading(m, "", t, "int", v) EXCEPT !.id_k = "missing"]

Garbage(m) == [Reading(m, "", 0, "missing", 0) EXCEPT !.json = FALSE, !.id_k = "missing", !.dt_k = "missing"]

\* The outcome of each call into the store or the file system.
NoFault == [fs |-> "ok", ins |-> "ok", reconnect |-> 0, commit |-> "ok", rollback |-> "ok",
            gexec |-> "ok", gcommit |-> "ok", grollback |-> "ok"]

Row(data) == [mid |-> data.mid, time |-> data.dt, sensor_id |-> data.id, value |-> data.value]

\* -------------------------------------------------------------------- world

World ==
    [db_conn |-> db_conn, txn |-> txn, silver |-> silver, gold |-> gold, raw |-> raw,
     batch_buffer |-> batch_buffer, last_commit_time |-> last_commit_time,
     last_gold_refresh |-> last_gold_refresh, trace |-> <<>>, faults |-> faults,
     ret |-> FALSE, exc |-> FALSE]

Log(w, ev) == [w EXCEPT !.trace = Append(@, ev)]

Fault(w) == [w EXCEPT !.faults = @ + 1]

Becomes(w) ==
    /\ db_conn' = w.db_conn
    /\ txn' = w.txn
    /\ silver' = w.silver
    /\ gold' = w.gold
    /\ raw' = w.raw
    /\ batch_buffer' = w.batch_buffer
    /\ last_commit_time' = w.last_commit_time
    /\ last_gold_refresh' = w.last_gold_refresh
    /\ trace' = w.trace
    /\ faults' = w.faults

\* --------------------------------------------------- the store's operations

\* Rows a statement on the connection sees: the committed ones and those of
\* its own open transaction.
Visible(w) == w.silver \cup w.txn

\* db_conn.commit(): the open transaction's rows become committed rows.
Committed(w) == [w EXCEPT !.silver = @ \cup w.txn, !.txn = {}]

\* db_conn.rollback(): the open transaction's rows are discarded.
RolledBack(w) == [w EXCEPT !.txn = {}]

\* db_conn.rollback() inside an except block: when the rollback itself
\* raises, nothing is undone and the exception leaves the function.
rollback(w, outcome) ==
    IF outcome = "ok" THEN RolledBack(w) ELSE [Fault(w) EXCEPT !.exc = TRUE]

\* ------------------------------------------------------- connect_database

\* `fails` attempts raise OperationalError before one succeeds.  A new
\* connection starts a new transaction: what the old one left uncommitted
\* is gone with it.
connect_database(w, fails) ==
    IF fails < max_retries
    THEN [Log(RolledBack(w), "DB_CONNECTED") EXCEPT !.db_conn = TRUE, !.ret = TRUE]
    ELSE [Log(w, "DB_ERROR") EXCEPT !.ret = FALSE]

\* --------------------------------------------------------- store_raw_data

RawLine(data) == [date |-> DateOf(data.dt), sensor_id |-> data.id, mid |-> data.mid,
                  value_k |-> data.value_k]

store_raw_data(w, data, fs) ==
    LET e == Log(w, "store_raw_data") IN
    IF data.id_k = "missing" \/ data.dt_k = "missing"
    THEN [Log(e, "BRONZE_ERR") EXCEPT !.ret = FALSE]
    ELSE IF fs = "ok"
    THEN [e EXCEPT !.raw = @ \cup {RawLine(data)}, !.ret = TRUE]
    ELSE [Log(Fault(e), "BRONZE_ERR") EXCEPT !.ret = FALSE]

\* -------------------------------------------------------- store_to_silver

store_to_silver(w, data, ins, fails) ==
    LET e == Log(w, "store_to_silver") IN
    IF ~e.db_conn THEN [e EXCEPT !.ret = FALSE]
    ELSE IF data.dt_k = "missing" \/ data.id_k = "missing" \/ data.value_k = "missing"
    THEN [Log(e, "SILVER_ERR") EXCEPT !.ret = FALSE]
    ELSE IF ins = "ok"
    THEN [e EXCEPT !.txn = @ \cup {Row(data)}, !.ret = TRUE]
    ELSE IF ins = "conn"
    THEN [connect_database(Log(Fault(e), "SILVER_ERR"), fails) EXCEPT !.ret = FALSE]
    ELSE [Log(Fault(e), "SILVER_ERR") EXCEPT !.ret = FALSE]

\* ----------------------------------------------------- refresh_gold_layer

\* The query without its WHERE clause.
WholeTable(rows, t) == rows

\* WHERE time >= NOW() - INTERVAL '5 minutes'
InWindow(rows, t) == {r \in rows : r.time >= t - lookback}

\* GROUP BY bucket, sensor_id
Groups(rows) == {<<time_bucket(r.time), r.sensor_id>> : r \in rows}

GroupRows(rows, k) == {r \in rows : time_bucket(r.time) = k[1] /\ r.sensor_id = k[2]}

Aggregate(rows, k, t) ==
    LET g == GroupRows(rows, k) IN
    [bucket |-> k[1], sensor_id |-> k[2], val_mean |-> RoundedMean(g),
     val_min |-> MinValue(g), val_max |-> MaxValue(g), sample_count |-> Cardinality(g),
     data_quality |-> data_quality(Cardinality(g)), last_updated |-> t]

\* The upsert with sample_count = reading_1min_mean.sample_count +
\* EXCLUDED.sample_count: the counts of two passes add up.
UpsertAdding(table, rows, t) ==
    {g \in table : <<g.bucket, g.sensor_id>> \notin Groups(rows)}
        \cup {LET old == {g \in table : <<g.bucket, g.sensor_id>> = k} IN
              IF old = {} THEN Aggregate(rows, k, t)
              ELSE [Aggregate(rows, k, t) EXCEPT
                       !.sample_count = @ + (CHOOSE g \in old : TRUE).sample_count] :
              k \in Groups(rows)}

\* INSERT ... SELECT ... ON CONFLICT (bucket, sensor_id) DO UPDATE SET ...
Upsert(table, rows, t) ==
    {g \in table : <<g.bucket, g.sensor_id>> \notin Groups(rows)}
        \cup {Aggregate(rows, k, t) : k \in Groups(rows)}

\* refresh_gold_layer on a connection in autocommit mode: the statement's
\* rows stay when the commit that follows it fails.
RefreshAutocommitted(w, t, gexec, gcommit, rb) ==
    LET e == Log(w, "refresh_gold_layer") IN
    IF ~e.db_conn THEN [e EXCEPT !.ret = FALSE]
    ELSE IF gexec = "ok" /\ gcommit = "ok"
    THEN [Log(Committed(e), "GOLD_UPSERTED") EXCEPT
              !.gold = Upsert(e.gold, InWindow(Visible(e), t), t), !.ret = TRUE]
    ELSE IF gexec = "ok"
    THEN [rollback(Log(Fault(e), "GOLD_FAILED"), rb) EXCEPT
              !.gold = Upsert(e.gold, InWindow(Visible(e), t), t), !.ret = FALSE]
    ELSE [rollback(Log(Fault(e), "GOLD_FAILED"), rb) EXCEPT !.ret = FALSE]

refresh_gold_layer(w, t, gexec, gcommit, rb) ==
    LET e == Log(w, "refresh_gold_layer") IN
    IF ~e.db_conn THEN [e EXCEPT !.ret = FALSE]
    ELSE IF gexec = "ok" /\ gcommit = "ok"
    THEN [Log(Committed(e), "GOLD_UPSERTED") EXCEPT
              !.gold = Upsert(e.gold, InWindow(Visible(e), t), t), !.ret = TRUE]
    ELSE [rollback(Log(Fault(e), "GOLD_FAILED"), rb) EXCEPT !.ret = FALSE]

\* ------------------------------------------------------------ flush_batch

\* flush_batch without the line last_commit_time = time.time().
FlushKeepingClock(w, t, commit, rb) ==
    LET e == Log(w, "flush_batch") IN
    IF e.db_conn /\ e.batch_buffer # <<>>
    THEN IF commit = "ok"
         THEN [Log(Committed(e), "SILVER_COMMITTED") EXCEPT !.batch_buffer = <<>>]
         ELSE rollback(Log(Fault(e), "COMMIT_FAILED"), rb)
    ELSE e

flush_batch(w, t, commit, rb) ==
    LET e == Log(w, "flush_batch") IN
    IF e.db_conn /\ e.batch_buffer # <<>>
    THEN IF commit = "ok"
         THEN [Log(Committed(e), "SILVER_COMMITTED") EXCEPT
                   !.batch_buffer = <<>>, !.last_commit_time = t]
         ELSE rollback(Log(Fault(e), "COMMIT_FAILED"), rb)
    ELSE e

\* ------------------------------------------------------------- on_message

\* The status line: f"{bronze_status} {silver_status} {data['id']:10s} @
\* {data['dt'][11:19]} = {data['value']:3d}".  A missing key raises KeyError
\* and a value that is no int raises ValueError (format code 'd').
StatusPrints(data) == data.id_k = "str" /\ data.dt_k = "iso" /\ data.value_k = "int"

StatusLine(raw_ok, silver_ok) ==
    IF raw_ok THEN (IF silver_ok THEN "BRONZE:OK SILVER:OK" ELSE "BRONZE:OK SILVER:FAIL")
    ELSE (IF silver_ok THEN "BRONZE:FAIL SILVER:OK" ELSE "BRONZE:FAIL SILVER:FAIL")

Raise(w) == [w EXCEPT !.exc = TRUE]

\* The statements of the try block run in order until one raises; each
\* stage below is skipped once an exception is on its way to the handler.

\* data = json.loads(msg.payload.decode())
ParseStage(w, data) == IF data.json THEN w ELSE Raise(w)

\* raw_ok = store_raw_data(data); silver_ok = store_to_silver(data);
\* if silver_ok: batch_buffer.append(data); then the status line.
\* The persist stage with batch_buffer.append(data) outside `if silver_ok`.
PersistAppendingAlways(w, data, f) ==
    IF w.exc THEN w
    ELSE LET a == store_raw_data(w, data, f.fs)
             b == store_to_silver(a, data, f.ins, f.reconnect)
             c == [b EXCEPT !.batch_buffer = Append(@, data)]
         IN  IF StatusPrints(data) THEN Log(c, StatusLine(a.ret, b.ret)) ELSE Raise(c)

PersistStage(w, data, f) ==
    IF w.exc THEN w
    ELSE LET a == store_raw_data(w, data, f.fs)
             b == store_to_silver(a, data, f.ins, f.reconnect)
             c == IF b.ret THEN [b EXCEPT !.batch_buffer = Append(@, data)] ELSE b
         IN  IF StatusPrints(data) THEN Log(c, StatusLine(a.ret, b.ret)) ELSE Raise(c)

\* if len(batch_buffer) >= batch_size or (time.time() - last_commit_time) > commit_interval
FlushDue(w, t) ==
    Len(w.batch_buffer) >= batch_size \/ (t - w.last_commit_time) > commit_interval

CommitStage(w, t, f) ==
    IF w.exc THEN w
    ELSE LET e == Log(w, "commit_check") IN
         IF FlushDue(e, t) THEN flush_batch(e, t, f.commit, f.rollback) ELSE e

\* if (now - last_gold_refresh).seconds >= 60
RefreshDue(w, t) == timedelta_seconds(t - w.last_gold_refresh) >= refresh_interval

\* src/data_ingestion/ingestion.py: current_time = time.time();
\* if (current_time - last_gold_refresh) >= 60
RefreshDueVariant(w, t) == (t - w.last_gold_refresh) >= refresh_interval

\* refresh_gold_layer(); last_gold_refresh = now
RefreshStage(w, t, f) ==
    IF w.exc THEN w
    ELSE LET e == Log(w, "refresh_check") IN
         IF RefreshDue(e, t)
         THEN LET h == refresh_gold_layer(e, t, f.gexec, f.gcommit, f.grollback) IN
              IF h.exc THEN h ELSE [h EXCEPT !.last_gold_refresh = t]
         ELSE e

\* except Exception as e: print(f"[ERROR] Message processing failed: {e}")
\* on_message without its try/except.
ExceptNothing(w) == w

ExceptStage(w) == IF w.exc THEN [Log(w, "MSG_FAILED") EXCEPT !.exc = FALSE] ELSE w

on_message(w, data, t, f) ==
    ExceptStage(
        RefreshStage(
            CommitStage(
                PersistStage(ParseStage(Log(w, "on_message"), data), data, f),
                t, f),
            t, f))

\* ------------------------------------------------------------------- main

\* setup_storage(), connect_database() (its result is not looked at), then
\* client.loop_forever().
main(w, fails) == connect_database(Log(w, "main"), fails)

\* except KeyboardInterrupt: flush_batch(); if db_conn: db_conn.close().
\* Closing the connection ends its open transaction without a commit.
shutdown(w, t, f) ==
    LET g == flush_batch(Log(w, "shutdown"), t, f.commit, f.rollback) IN
    IF g.exc THEN g
    ELSE IF g.db_conn THEN Log(RolledBack(g), "DB_CLOSED") ELSE g

\* ------------------------------------------------- outcomes of the calls

\* The outcomes of the calls a stage makes, each call that is made failing
\* or not: a failure of a call the stage does not make is no outcome.
With(f, g) == [k \in DOMAIN NoFault |-> IF k \in DOMAIN g THEN g[k] ELSE f[k]]

FsOutcomes(w, data) ==
    IF PersistStage(w, data, With(NoFault, [fs |-> "err"])).faults > w.faults
    THEN {"ok", "err"} ELSE {"ok"}

InsOutcomes(w, data, fs) ==
    IF PersistStage(w, data, With(NoFault, [fs |-> fs, ins |-> "err"])).faults
           > PersistStage(w, data, With(NoFault, [fs |-> fs])).faults
    THEN {[ins |-> "ok", reconnect |-> 0], [ins |-> "err", reconnect |-> 0],
          [ins |-> "conn", reconnect |-> 0], [ins |-> "conn", reconnect |-> max_retries]}
    ELSE {[ins |-> "ok", reconnect |-> 0]}

PersistOutcomes(w, data) ==
    {With(NoFault, [fs |-> p[1], ins |-> p[2].ins, reconnect |-> p[2].reconnect]) :
        p \in {q \in {"ok", "err"} \X [ins : {"ok", "err", "conn"}, reconnect : {0, max_retries}] :
                  q[1] \in FsOutcomes(w, data) /\ q[2] \in InsOutcomes(w, data, q[1])}}

\* A commit succeeds, or fails and is rolled back, or fails with a rollback
\* that fails too.
CommitOrNot ==
    {[commit |-> "ok", rollback |-> "ok"], [commit |-> "err", rollback |-> "ok"],
     [commit |-> "err", rollback |-> "err"]}

FlushOutcomes(w, t) ==
    IF flush_batch(w, t, "err", "ok").faults > w.faults
    THEN CommitOrNot ELSE {[commit |-> "ok", rollback |-> "ok"]}

CommitOutcomes(w, t) ==
    IF CommitStage(w, t, With(NoFault, [commit |-> "err"])).faults > w.faults
    THEN CommitOrNot ELSE {[commit |-> "ok", rollback |-> "ok"]}

RefreshOutcomes(w, t) ==
    IF RefreshStage(w, t, With(NoFault, [gexec |-> "err"])).faults > w.faults
    THEN {[gexec |-> "ok", gcommit |-> "ok", grollback |-> "ok"],
          [gexec |-> "err", gcommit |-> "ok", grollback |-> "ok"],
          [gexec |-> "err", gcommit |-> "ok", grollback |-> "err"],
          [gexec |-> "ok", gcommit |-> "err", grollback |-> "ok"],
          [gexec |-> "ok", gcommit |-> "err", grollback |-> "err"]}
    ELSE {[gexec |-> "ok", gcommit |-> "ok", grollback |-> "ok"]}

\* ---------------------------------------------------------------- actions

\* Seconds that pass between two calls.
Ticks == {0, 6, 60}

\* The payloads of the pipeline's runs, for message m arriving at time t.
Payloads(m, t) ==
    {Reading(m, "s1", t, "int", 1), Reading(m, "s1", t, "float", 1),
     NoValue(m, "s1", t), NoId(m, t, 1), Garbage(m)}

Init ==
    /\ pc = "init"
    /\ now = 0
    /\ nmsg = 0
    /\ msg = Garbage(0)
    /\ faults = 0
    /\ db_conn = FALSE
    /\ txn = {}
    /\ silver = {}
    /\ gold = {}
    /\ raw = {}
    /\ batch_buffer = <<>>
    /\ last_commit_time = 0
    /\ last_gold_refresh = 0
    /\ trace = <<>>

\* The process starts: main() up to client.loop_forever().
Start ==
    /\ pc = "init"
    /\ \E fails \in {0, max_retries} : Becomes(main(World, fails))
    /\ pc' = "running"
    /\ UNCHANGED <<now, nmsg, msg>>

\* The transport delivers one message, d seconds after the last call.  An
\* exception that leaves on_message leaves client.loop_forever() and main().
Receive ==
    /\ pc = "running"
    /\ nmsg < MaxMsgs
    /\ \E d \in Ticks : \E data \in Payloads(nmsg + 1, now + d) :
       LET t == now + d
           w0 == ParseStage(Log(World, "on_message"), data)
       IN  \E p \in PersistOutcomes(w0, data) :
           LET w1 == PersistStage(w0, data, p) IN
           \E c \in CommitOutcomes(w1, t) :
           LET w2 == CommitStage(w1, t, With(p, c)) IN
           \E r \in RefreshOutcomes(w2, t) :
           LET w == on_message(World, data, t, With(With(p, c), r)) IN
              /\ w.faults <= MaxFaults
              /\ now' = t
              /\ msg' = data
              /\ Becomes(w)
              /\ pc' = IF w.exc THEN "crashed" ELSE pc
    /\ nmsg' = nmsg + 1

\* KeyboardInterrupt ends client.loop_forever().
Shutdown ==
    /\ pc = "running"
    /\ \E c \in FlushOutcomes(World, now) :
       LET w == shutdown(World, now, With(NoFault, c)) IN
          /\ w.faults <= MaxFaults
          /\ Becomes(w)
          /\ pc' = IF w.exc THEN "crashed" ELSE "stopped"
    /\ UNCHANGED <<now, nmsg, msg>>

Next == Start \/ Receive \/ Shutdown

Spec == Init /\ [][Next]_vars

\* ------------------------------------------------ the functions, one by one

\* store_to_silver and refresh_gold_layer called directly on a connected
\* store, d seconds apart, with readings of two sensors, some of them late:
\* by more than the look-back window, or by less than it and into a minute
\* that began before the window.
CallTicks == {0, 40, 300}

CallReadings(m, t) ==
    {Reading(m, "s1", t, "int", 1), Reading(m, "s1", t, "int", 4),
     Reading(m, "s2", t, "int", 1)}
        \cup (IF t >= 340 THEN {Reading(m, "s1", t - 340, "int", 4)} ELSE {})
        \cup (IF t >= 290 THEN {Reading(m, "s1", t - 290, "int", 4)} ELSE {})

RefreshOrNot ==
    {[gexec |-> "ok", gcommit |-> "ok", grollback |-> "ok"],
     [gexec |-> "err", gcommit |-> "ok", grollback |-> "ok"],
     [gexec |-> "ok", gcommit |-> "err", grollback |-> "ok"]}

InitRefresh ==
    /\ pc = "direct"
    /\ now = 0
    /\ nmsg = 0
    /\ msg = Garbage(0)
    /\ faults = 0
    /\ db_conn = TRUE
    /\ txn = {}
    /\ silver = {}
    /\ gold = {}
    /\ raw = {}
    /\ batch_buffer = <<>>
    /\ last_commit_time = 0
    /\ last_gold_refresh = 0
    /\ trace = <<>>

CallStore ==
    /\ pc = "direct"
    /\ nmsg < MaxCalls
    /\ \E d \in CallTicks : \E data \in CallReadings(nmsg + 1, now + d) :
          /\ now' = now + d
          /\ msg' = data
          /\ Becomes(store_to_silver(World, data, "ok", 0))
    /\ nmsg' = nmsg + 1
    /\ pc' = pc

CallRefresh ==
    /\ pc = "direct"
    /\ nmsg < MaxCalls
    /\ \E d \in CallTicks : \E r \in RefreshOrNot :
       LET w == refresh_gold_layer(World, now + d, r.gexec, r.gcommit, r.grollback) IN
          /\ w.faults <= MaxFaults
          /\ now' = now + d
          /\ Becomes(w)
    /\ nmsg' = nmsg + 1
    /\ UNCHANGED <<pc, msg>>

NextRefresh == CallStore \/ CallRefresh

SpecRefresh == InitRefresh /\ [][NextRefresh]_vars

\* ------------------------------------------------- one minute, two sensors

\* c rows of one sensor in the minute that starts at 0, one row a second,
\* numbered from m + 1.
MinuteRows(id, m, c) ==
    {[mid |-> m + i, time |-> (i - 1) % bucket_width, sensor_id |-> id, value |-> 1] : i \in 1..c}

\* The store holds c1 committed rows of s1 and c2 of s2, all of one minute.
InitQuality ==
    /\ pc = "loaded"
    /\ now = bucket_width
    /\ nmsg = 0
    /\ msg = Garbage(0)
    /\ faults = 0
    /\ db_conn = TRUE
    /\ txn = {}
    /\ \E c1 \in 0..MaxCount : \E c2 \in 0..MaxCount :
           silver = MinuteRows("s1", 0, c1) \cup MinuteRows("s2", c1, c2)
    /\ gold = {}
    /\ raw = {}
    /\ batch_buffer = <<>>
    /\ last_commit_time = 0
    /\ last_gold_refresh = 0
    /\ trace = <<>>

\* refresh_gold_layer is called once the minute is over.
RefreshLoaded ==
    /\ pc = "loaded"
    /\ Becomes(refresh_gold_layer(World, now, "ok", "ok", "ok"))
    /\ pc' = "refreshed"
    /\ nmsg' = nmsg + 1
    /\ UNCHANGED <<now, msg>>

NextQuality == RefreshLoaded

SpecQuality == InitQuality /\ [][NextQuality]_vars

\* ------------------------------------------------------ a burst of readings

\* Readings that arrive within one second, their value an int or a float,
\* on a store that takes every insert; a commit may fail.
BurstTicks == {0}

BurstPayloads(m, t) == {Reading(m, "s1", t, "int", 1), Reading(m, "s1", t, "float", 1)}

\* main() has connected and is in client.loop_forever().
InitBurst ==
    /\ pc = "running"
    /\ now = 0
    /\ nmsg = 0
    /\ msg = Garbage(0)
    /\ faults = 0
    /\ db_conn = TRUE
    /\ txn = {}
    /\ silver = {}
    /\ gold = {}
    /\ raw = {}
    /\ batch_buffer = <<>>
    /\ last_commit_time = 0
    /\ last_gold_refresh = 0
    /\ trace = <<>>

ReceiveBurst ==
    /\ pc = "running"
    /\ nmsg < MaxBurst
    /\ \E d \in BurstTicks : \E data \in BurstPayloads(nmsg + 1, now + d) :
       LET t == now + d
           w1 == PersistStage(ParseStage(Log(World, "on_message"), data), data, NoFault)
       IN  \E c \in CommitOutcomes(w1, t) :
           LET w2 == CommitStage(w1, t, With(NoFault, c)) IN
           \E r \in RefreshOutcomes(w2, t) :
           LET w == on_message(World, data, t, With(With(NoFault, c), r)) IN
              /\ w.faults <= MaxFaults
              /\ now' = t
              /\ msg' = data
              /\ Becomes(w)
              /\ pc' = IF w.exc THEN "crashed" ELSE pc
    /\ nmsg' = nmsg + 1

NextBurst == ReceiveBurst

SpecBurst == InitBurst /\ [][NextBurst]_vars

\* ------------------------------------- readings shortly before the refresh

\* Readings that arrive 3 s or 57 s after the call before: a refresh can be
\* due when the flush is not.
PacedTicks == {3, 57}

PacedPayloads(m, t) == {Reading(m, "s1", t, "int", 1), Reading(m, "s2", t, "int", 4)}

ReceivePaced ==
    /\ pc = "running"
    /\ nmsg < MaxMsgs
    /\ \E d \in PacedTicks : \E data \in PacedPayloads(nmsg + 1, now + d) :
       LET t == now + d
           w0 == ParseStage(Log(World, "on_message"), data)
       IN  \E p \in PersistOutcomes(w0, data) :
           LET w1 == PersistStage(w0, data, p) IN
           \E c \in CommitOutcomes(w1, t) :
           LET w2 == CommitStage(w1, t, With(p, c)) IN
           \E r \in RefreshOutcomes(w2, t) :
           LET w == on_message(World, data, t, With(With(p, c), r)) IN
              /\ w.faults <= MaxFaults
              /\ now' = t
              /\ msg' = data
              /\ Becomes(w)
              /\ pc' = IF w.exc THEN "crashed" ELSE pc
    /\ nmsg' = nmsg + 1

NextPaced == Start \/ ReceivePaced \/ Shutdown

SpecPaced == Init /\ [][NextPaced]_vars

\* ---------------------------------------- a reading long after the refresh

\* The seconds between the last refresh and the reading: up to MaxElapsed,
\* and a day more than that.
Elapsed == (0..MaxElapsed) \cup {day + x : x \in 0..MaxElapsed}

\* The first reading arrives e seconds after the module was imported
\* (last_gold_refresh = datetime.now() at import); no call fails.
ReceiveAfter ==
    /\ pc = "running"
    /\ nmsg = 0
    /\ \E e \in Elapsed :
       LET data == Reading(nmsg + 1, "s1", now + e, "int", 1)
           w == on_message(World, data, now + e, NoFault)
       IN  /\ now' = now + e
           /\ msg' = data
           /\ Becomes(w)
           /\ pc' = IF w.exc THEN "crashed" ELSE pc
    /\ nmsg' = nmsg + 1

NextElapsed == ReceiveAfter

SpecElapsed == InitBurst /\ [][NextElapsed]_vars

\* ------------------------------------------------------------- properties

Mids(rows) == {r.mid : r \in rows}

\* The step delivers a message to on_message.
Delivered == nmsg' = nmsg + 1 /\ pc = "running"

\* id a string, dt an ISO-8601 string, value a number.
WellFormed(data) ==
    data.json /\ data.id_k = "str" /\ data.dt_k = "iso" /\ data.value_k \in {"int", "float"}

\* The status line of the call says that the persist succeeded.
SilverOk(tr) == Has(tr, "BRONZE:OK SILVER:OK") \/ Has(tr, "BRONZE:FAIL SILVER:OK")

\* The call was refresh_gold_layer alone, and it succeeded.
RefreshOk(tr) == tr = <<"refresh_gold_layer", "GOLD_UPSERTED">>

\* C1: no data loss on commit failure. When a flush fails and is rolled
\* back and the flush of the next call commits (the line "[SILVER]
\* Committed"), every reading persisted with success and not flushed before
\* (the tally, and the reading of this step when its persist succeeded) is a
\* committed row of silver.sensor_reading afterwards.
C1_NoLossAfterFailedCommit ==
    [][(Has(trace, "COMMIT_FAILED") /\ Has(trace', "SILVER_COMMITTED")) =>
          \A m \in {d.mid : d \in Range(batch_buffer)}
                      \cup (IF Delivered /\ SilverOk(trace') THEN {nmsg'} ELSE {}) :
              m \in Mids(silver')]_vars

\* C2: commit trigger policy. Each time on_message processes a reading
\* with the store connected, it
\* calls flush_batch when the tally it then holds is >= batch_size or more
\* than commit_interval seconds have passed since last_commit_time, and
\* does not call it when neither holds.
PendingAtCheck ==
    IF Has(trace', "SILVER_COMMITTED")
    THEN Len(batch_buffer) + (IF SilverOk(trace') THEN 1 ELSE 0)
    ELSE Len(batch_buffer')

C2_CommitTrigger ==
    [][(Delivered /\ db_conn /\ WellFormed(msg')) =>
          (Has(trace', "flush_batch")
              <=> (PendingAtCheck >= batch_size \/ now' - last_commit_time > commit_interval))]_vars

\* C3: shutdown drain. When the process shuts down with k readings in the
\* tally, 0 < k < batch_size, and the store takes the drain's commit, all k
\* are committed rows once the process has stopped.
C3_ShutdownDrain ==
    [][(pc = "running" /\ pc' \in {"stopped", "crashed"}
            /\ Len(batch_buffer) > 0 /\ Len(batch_buffer) < batch_size
            /\ ~Has(trace', "COMMIT_FAILED")) =>
          \A d \in Range(batch_buffer) : d.mid \in Mids(silver')]_vars

\* C4: malformed payloads reach no tier. A payload that does not parse or
\* lacks id, dt or value adds no line to a raw file, no row to the store and
\* nothing to the tally.
Malformed(data) ==
    ~data.json \/ data.id_k = "missing" \/ data.dt_k = "missing" \/ data.value_k = "missing"

C4_MalformedReachesNoTier ==
    [][(Delivered /\ Malformed(msg')) =>
          (raw' = raw /\ txn' = txn /\ silver' = silver /\ batch_buffer' = batch_buffer)]_vars

\* C5: unconditional stage order. For every well-formed reading, integer
\* valued or not, on_message attempts the capture, then the persist, then
\* evaluates the commit condition, then the refresh condition.
C5_StageOrder ==
    [][(Delivered /\ WellFormed(msg')) =>
          /\ 0 < Pos(trace', "store_raw_data")
          /\ Pos(trace', "store_raw_data") < Pos(trace', "store_to_silver")
          /\ Pos(trace', "store_to_silver") < Pos(trace', "commit_check")
          /\ Pos(trace', "commit_check") < Pos(trace', "refresh_check")]_vars

\* C6: startup connectivity exhaustion is fatal. The process is in the
\* ingestion loop, and a message is delivered, only with a connection
\* established: when all max_retries attempts failed it has terminated.
C6_StartupExhaustionFatal == pc = "running" => db_conn

\* C7: an aggregate bucket is a function of the whole bucket. After a
\* successful refresh, every row of gold.reading_1min_mean written by it
\* holds the aggregates over all rows of silver.sensor_reading of its sensor
\* and its minute, the oldest bucket of the look-back window included.
C7_WholeBucket ==
    RefreshOk(trace) =>
        \A g \in gold : g.last_updated = now =>
            LET all == GroupRows(silver, <<g.bucket, g.sensor_id>>) IN
            /\ g.sample_count = Cardinality(all)
            /\ g.val_min = MinValue(all)
            /\ g.val_max = MaxValue(all)
            /\ g.val_mean = RoundedMean(all)

\* C8 as stated: a refresh that follows a refresh, with no row inserted
\* between the two, leaves gold.reading_1min_mean as the first one left it.
C8_RefreshTwiceSame ==
    [][(RefreshOk(trace) /\ RefreshOk(trace') /\ nmsg' = nmsg + 1) => gold' = gold]_vars

\* C8 as amended: a refresh that follows a refresh at the same clock
\* reading, with no row inserted between the two, leaves every column of
\* every row of gold.reading_1min_mean as the first one left it.
C8_RefreshTwiceSameNow ==
    [][(RefreshOk(trace) /\ RefreshOk(trace') /\ nmsg' = nmsg + 1 /\ now' = now) =>
          gold' = gold]_vars

\* A row was stored, and two refreshes followed it, all at time 0: the
\* row is committed (the first refresh did not roll it back), it is the only
\* row, and the third call was a successful refresh.
C8_Witness ==
    /\ pc = "direct" /\ nmsg = 3 /\ now = 0
    /\ RefreshOk(trace)
    /\ Mids(silver) = {1} /\ txn = {}
    /\ Cardinality(gold) = 1

\* C9: refresh gating on the last successful refresh. A refresh that fails
\* does not restart the interval, and the next reading that reaches the
\* refresh check after a failed refresh calls refresh_gold_layer again.
C9_FailedRefreshRetried ==
    [][Delivered =>
          /\ Has(trace', "GOLD_FAILED") => last_gold_refresh' = last_gold_refresh
          /\ (Has(trace, "GOLD_FAILED") /\ Has(trace', "refresh_check")) =>
                 Has(trace', "refresh_gold_layer")]_vars

\* C10: a commit failure leaves the scheduler state intact. When the commit
\* of flush_batch raises and the rollback goes through, the open transaction
\* is rolled back, the tally keeps its entries and last_commit_time is not
\* reset; and the next reading delivered has flush_batch called again.
C10_CommitFailureKeepsState ==
    [][Delivered =>
          /\ (Has(trace', "COMMIT_FAILED") /\ faults' = faults + 1) =>
                 /\ txn' = {}
                 /\ SubSeq(batch_buffer', 1, Len(batch_buffer)) = batch_buffer
                 /\ Len(batch_buffer') = Len(batch_buffer) + (IF SilverOk(trace') THEN 1 ELSE 0)
                 /\ last_commit_time' = last_commit_time
          /\ (Has(trace, "COMMIT_FAILED") /\ WellFormed(msg')) => Has(trace', "flush_batch")]_vars

\* The tally flush_batch finds when this step calls it: the tally before the
\* step and, in on_message, the reading of the step when its persist
\* succeeded (the status line is printed before the commit check).
PendingAtFlush == Len(batch_buffer) + (IF Delivered /\ SilverOk(trace') THEN 1 ELSE 0)

\* C11: the effect of a flush. A step that calls flush_batch with a
\* connection and a tally that is not empty, the commit going through,
\* commits the open transaction (the row this step inserted included, and all
\* rows that were open before when no call of the step failed), leaves the
\* tally empty and last_commit_time at the current time; with an empty
\* tally flush_batch commits nothing and changes neither the tally nor
\* last_commit_time.
C11_FlushEffect ==
    [][Has(trace', "flush_batch") =>
          /\ (db_conn' /\ PendingAtFlush > 0 /\ ~Has(trace', "COMMIT_FAILED")) =>
                 /\ Has(trace', "SILVER_COMMITTED")
                 /\ txn' = {}
                 /\ silver \subseteq silver'
                 /\ (Delivered /\ SilverOk(trace')) => nmsg' \in Mids(silver')
                 /\ faults' = faults => txn \subseteq silver'
                 /\ batch_buffer' = <<>>
                 /\ last_commit_time' = now'
          /\ PendingAtFlush = 0 =>
                 /\ ~Has(trace', "SILVER_COMMITTED")
                 /\ silver' = silver
                 /\ batch_buffer' = batch_buffer
                 /\ last_commit_time' = last_commit_time]_vars

\* A flush has committed the reading of the second message, after the clock
\* has moved: the row is committed, the tally is empty and last_commit_time
\* is the current time.
C11_Witness ==
    /\ Has(trace, "SILVER_COMMITTED")
    /\ now > 0 /\ nmsg = 2 /\ 2 \in Mids(silver)
    /\ batch_buffer = <<>> /\ last_commit_time = now

\* store_to_silver returned True in this step: the status line says so, or,
\* when the status line raised (nothing runs after it), the row of this
\* message is in the open transaction.
Persisted == SilverOk(trace') \/ nmsg' \in Mids(txn')

\* C12: the tally counts successes only. A step of on_message whose flush
\* does not commit leaves the tally one longer, by the reading of the step,
\* when store_to_silver returned True, and as it was when store_to_silver
\* returned False (no connection, a failed insert, a connection error and the
\* reconnect); a flush that commits leaves it empty.
C12_TallyCountsSuccesses ==
    [][Delivered =>
          IF Has(trace', "SILVER_COMMITTED") THEN batch_buffer' = <<>>
          ELSE IF Persisted THEN batch_buffer' = Append(batch_buffer, msg')
          ELSE batch_buffer' = batch_buffer]_vars

\* The first reading is in the tally and the persist of the second one has
\* failed on a connected store: the tally still holds the first one only.
C12_Witness ==
    /\ db_conn /\ nmsg = 2
    /\ Has(trace, "SILVER_ERR") /\ Has(trace, "BRONZE:OK SILVER:FAIL")
    /\ Len(batch_buffer) = 1 /\ batch_buffer[1].mid = 1

\* C13: no exception reaches the transport. Whatever the payload (not
\* JSON, fields missing, a value of the wrong type, well formed) and whatever
\* the outcomes of the capture, the persist, the commit and the refresh
\* (a rollback that raises included), on_message returns normally: the
\* process is still in client.loop_forever(), where the next message is
\* delivered.
C13_NoExceptionEscapes == [][Delivered => pc' = "running"]_vars

\* The second message: the commit of its flush failed, the rollback raised
\* too, and on_message caught the exception.
C13_Witness ==
    /\ pc = "running" /\ nmsg = 2 /\ faults = 2
    /\ Has(trace, "COMMIT_FAILED") /\ Has(trace, "MSG_FAILED")

\* The rows of a table with bucket and sensor_id as in k.
Keyed(table, k) == {g \in table : g.bucket = k[1] /\ g.sensor_id = k[2]}

\* C14: a refresh is all or nothing. A call of refresh_gold_layer that
\* succeeds leaves, for every (bucket, sensor_id) group of the rows in the
\* look-back window, the row it computed at this pass, and the other rows
\* as they were; a call that fails leaves gold.reading_1min_mean as it was;
\* and the table never holds two rows of one (bucket, sensor_id).
C14_RefreshAllOrNothing ==
    [][/\ \A g \in gold' : Keyed(gold', <<g.bucket, g.sensor_id>>) = {g}
       /\ (Has(trace', "refresh_gold_layer") /\ nmsg' = nmsg + 1) =>
              IF Has(trace', "GOLD_UPSERTED")
              THEN /\ \A k \in Groups(InWindow(silver \cup txn, now')) :
                         \E g \in Keyed(gold', k) : g.last_updated = now'
                   /\ \A g \in gold :
                         <<g.bucket, g.sensor_id>> \notin Groups(InWindow(silver \cup txn, now'))
                             => g \in gold'
                   /\ \A g \in gold' : g \in gold \/ g.last_updated = now'
              ELSE gold' = gold]_vars

\* The fourth call, a pass after the clock has moved, has written the rows
\* of two groups at once.
C14_Witness ==
    /\ pc = "direct" /\ RefreshOk(trace) /\ nmsg = 4 /\ now > 0
    /\ Cardinality({g \in gold : g.last_updated = now}) >= 2

\* The order Poor < Fair < Good.
QualityRank(label) == IF label = "Good" THEN 2 ELSE IF label = "Fair" THEN 1 ELSE 0

\* C15: the quality label is monotone in the sample count. Of two rows of
\* gold.reading_1min_mean written by a refresh, the one with the higher
\* sample_count never has the worse data_quality, and a row with a
\* sample_count of exactly 58 is labelled Good.
C15_QualityMonotone ==
    pc = "refreshed" =>
        /\ \A g1, g2 \in gold :
               g1.sample_count <= g2.sample_count =>
                   QualityRank(g1.data_quality) <= QualityRank(g2.data_quality)
        /\ \A g \in gold : g.sample_count = 58 => g.data_quality = "Good"

\* The refresh has labelled a minute of 58 rows and a minute of 57 rows.
C15_Witness ==
    /\ pc = "refreshed"
    /\ \E g \in gold : g.sample_count = 58 /\ g.data_quality = "Good"
    /\ \E g \in gold : g.sample_count = 57 /\ g.data_quality = "Fair"

\* C16 as stated: the last call inserted a row into a minute all of whose
\* rows were then older than the look-back window (time < now - lookback);
\* the refresh that follows does not insert, update or delete the minute's
\* row of gold.reading_1min_mean.
C16_FrozenOnceRowsAged ==
    [][(trace = <<"store_to_silver">> /\ Has(trace', "refresh_gold_layer") /\ nmsg' = nmsg + 1) =>
          LET k == <<time_bucket(msg.dt), msg.id>>
              before == GroupRows(silver \cup txn, k) \ {Row(msg)}
          IN  (before # {} /\ \A r \in before : r.time < now - lookback) =>
                  Keyed(gold', k) = Keyed(gold, k)]_vars

\* C16 as amended: a refresh leaves alone the row of every minute that
\* ended before the look-back window began (bucket + bucket_width <= now -
\* lookback), whatever rows of that minute the store holds by then, late ones
\* included.
C16_FrozenOnceMinuteAged ==
    [][(Has(trace', "refresh_gold_layer") /\ nmsg' = nmsg + 1) =>
          \A k \in Groups(silver \cup txn) \cup {<<g.bucket, g.sensor_id>> : g \in gold} :
              k[1] + bucket_width <= now' - lookback => Keyed(gold', k) = Keyed(gold, k)]_vars

\* A minute was aggregated, a late row of it was inserted when the minute
\* was no longer complete in the window, and a refresh ran after the minute
\* had left the window: the minute's aggregate is the one of the first pass.
C16_Witness ==
    /\ pc = "direct" /\ nmsg = 4 /\ RefreshOk(trace)
    /\ \E g \in gold : /\ g.bucket + bucket_width <= now - lookback
                        /\ g.last_updated < now
                        /\ g.sample_count = 1
                        /\ \E r \in GroupRows(silver, <<g.bucket, g.sensor_id>>) : r.mid = 3

\* C17: the uncommitted backlog is bounded. Between two readings the open
\* transaction holds at most batch_size rows and the tally at most
\* batch_size readings, whatever the readings and the outcomes of the
\* commits.
C17_BoundedBacklog ==
    pc = "running" => Cardinality(txn) <= batch_size /\ Len(batch_buffer) <= batch_size

\* C18: the tally matches the open transaction. While the process is in
\* the ingestion loop, the readings of batch_buffer are the rows the open
\* transaction holds: nothing but flush_batch commits a row, and nothing
\* discards a row that stays in the tally.
C18_TallyMatchesTransaction ==
    pc = "running" => {d.mid : d \in Range(batch_buffer)} = Mids(txn)

\* C19: a failed refresh loses no row. When the refresh of a call failed
\* and was rolled back, with no commit having failed in that call, the
\* readings the tally then holds (persisted, not yet committed) are committed
\* rows of silver.sensor_reading once the next flush has committed.
C19_FailedRefreshLosesNothing ==
    [][(Has(trace, "GOLD_FAILED") /\ ~Has(trace, "COMMIT_FAILED")
            /\ Has(trace', "SILVER_COMMITTED")) =>
          \A d \in Range(batch_buffer) : d.mid \in Mids(silver')]_vars

\* C20: the two variants agree on the refresh test. For a reading that
\* reaches the refresh check e seconds after last_gold_refresh, e >= 0 and
\* a day or more included, on_message of src/ingestion.py calls
\* refresh_gold_layer exactly when the test of
\* src/data_ingestion/ingestion.py holds, which is when e >= 60, and it
\* then sets last_gold_refresh to the current time.
C20_VariantsAgree ==
    [][(Delivered /\ Has(trace', "refresh_check")) =>
          /\ Has(trace', "refresh_gold_layer") <=> RefreshDueVariant(World, now')
          /\ RefreshDueVariant(World, now') <=> now' - last_gold_refresh >= 60
          /\ Has(trace', "refresh_gold_layer") => last_gold_refresh' = now']_vars

====
